---- MODULE Spec2Model ----
(***************************************************************************)
(* Blakeout (src/src/lib.rs): a scratchpad hash built on Blake2s, and the  *)
(* file tool of src/examples/file_blakeout.rs that drives it.              *)
(*                                                                         *)
(* The scratchpad is modelled byte by byte.  Its geometry is scaled down:  *)
(* DEFAULT_HASH_SIZE, DEFAULT_HASH_COUNT and BUFFER_SIZE keep the source's *)
(* names but stand for 32, 65536 and 1024; every operator below is written *)
(* in terms of the names, so the same definitions read at any size.        *)
(*                                                                         *)
(* Blake2s is an external primitive.  It is modelled as a collision-free   *)
(* function by interning: the variable oracle lists the messages hashed so *)
(* far, the digest of a message is built from its position in that list,   *)
(* so equal messages get equal digests and distinct messages get digests   *)
(* that share no byte value.                                               *)
(***************************************************************************)
EXTENDS Integers, Sequences, FiniteSets, TLC

DEFAULT_HASH_SIZE == 2
DEFAULT_HASH_COUNT == 4
BUFFER_SIZE == 2

\* Bounds of the exploration.
MaxDataLen == 1
MaxUpdates == 3
MaxFileLen == 4

\* Input bytes; digests use byte values above these.
Alphabet == {0, 1}

RECURSIVE SeqsUpTo(_)
SeqsUpTo(len) ==
    IF len = 0 THEN {<<>>}
    ELSE LET shorter == SeqsUpTo(len - 1)
         IN shorter \cup {Append(s, b) : s \in {t \in shorter : Len(t) = len - 1}, b \in Alphabet}

Data == SeqsUpTo(MaxDataLen)
Files == SeqsUpTo(MaxFileLen)

VARIABLES
    buffer, result, dirty,      \* struct Blakeout
    oracle,                     \* messages Blake2s has digested, in first-use order
    pc, x, data,                \* position inside process_input, its loop variable and argument
    chain, done, lastOp,        \* history: inputs of the updates completed since new()/reset(),
                                \* number of completed updates, last completed call
    written, win, msg,          \* history of the running call: slots written so far, the byte
                                \* range and the bytes fed to the latest slot digest
    filled, pre,                \* history: the scratchpad as the fill pass left it; the hasher
                                \* as it was when the running call started
    file, pos, rbuf, n, cli, printed   \* fn process of the file tool

hasher == <<buffer, result, dirty>>
control == <<pc, x, data>>
history == <<chain, done, lastOp, written, win, msg, filled, pre>>
tool == <<file, pos, rbuf, n, cli, printed>>
vars == <<hasher, oracle, control, history, tool>>

----------------------------------------------------------------------------
\* Blake2sVar::new(DEFAULT_HASH_SIZE), update*, finalize_variable

Intern(t, m) == IF \E k \in 1..Len(t) : t[k] = m THEN t ELSE Append(t, m)

Ident(t, m) == CHOOSE k \in 1..Len(t) : t[k] = m

Output(k) ==
    [j \in 1..DEFAULT_HASH_SIZE |-> Cardinality(Alphabet) - 1 + (k - 1) * DEFAULT_HASH_SIZE + j]

\* One accumulator fed the message m and finalized: the table afterwards and the digest.
Blake2s(t, m) ==
    LET t2 == Intern(t, m)
    IN [table |-> t2, out |-> Output(Ident(t2, m))]

----------------------------------------------------------------------------
\* Vec<u8> and slice operations used by the code (offsets are 0-based, ranges half-open)

Zeros(len) == [i \in 1..len |-> 0]

\* &buf[a..b]
Slice(buf, a, b) == SubSeq(buf, a + 1, b)

\* writing bytes into buf[a..a + bytes.len()]
Put(buf, a, bytes) ==
    [i \in 1..Len(buf) |-> IF i > a /\ i <= a + Len(bytes) THEN bytes[i - a] ELSE buf[i]]

\* a resize that comes out one byte short
Resize_short(v, len) == [i \in 1..(len - 1) |-> IF i <= Len(v) THEN v[i] ELSE 0]

\* Vec::resize(len, 0)
Resize(v, len) == [i \in 1..len |-> IF i <= Len(v) THEN v[i] ELSE 0]

\* a reversal of the order of the slots that keeps each slot's bytes in order
reverse_slots(buf) ==
    [i \in 1..Len(buf) |->
        buf[Len(buf) - DEFAULT_HASH_SIZE * ((i - 1) \div DEFAULT_HASH_SIZE + 1)
            + ((i - 1) % DEFAULT_HASH_SIZE) + 1]]

\* Vec::reverse
reverse(buf) == [i \in 1..Len(buf) |-> buf[Len(buf) + 1 - i]]

----------------------------------------------------------------------------
\* Blakeout

new == [buffer |-> Zeros(DEFAULT_HASH_SIZE * DEFAULT_HASH_COUNT), result |-> <<>>, dirty |-> FALSE]

\* a loop that stops one slot early
LoopEnd_short(buf) == DEFAULT_HASH_SIZE * (Len(buf) \div DEFAULT_HASH_SIZE - 1)

\* hash_count and the end of the loop range hash_size..hash_size * hash_count
LoopEnd(buf) == DEFAULT_HASH_SIZE * (Len(buf) \div DEFAULT_HASH_SIZE)

\* a window of one slot instead of two
WindowStart_single(off) ==
    IF off >= DEFAULT_HASH_SIZE THEN off - DEFAULT_HASH_SIZE ELSE 0

\* let start = if x >= double_size { x - double_size } else { 0 };
WindowStart(off) ==
    IF off >= DEFAULT_HASH_SIZE * 2 THEN off - DEFAULT_HASH_SIZE * 2 ELSE 0

\* a seed that leaves the previous result out
SeedMessage_unchained(h, d) == d

\* lines 78-85: the message of the first digest
SeedMessage(h, d) == (IF h.dirty THEN h.result ELSE <<>>) \o d

\* lines 78-85: preparing the scratchpad
Seed(t, h, d) ==
    LET r == Blake2s(t, SeedMessage(h, d))
    IN [table |-> r.table, buffer |-> Put(h.buffer, 0, r.out)]

\* a window that runs one slot too far, over the slot about to be written
FillSlot_ahead(t, buf, off) ==
    LET start == WindowStart(off)
        r == Blake2s(t, Slice(buf, start, off + DEFAULT_HASH_SIZE))
    IN [table |-> r.table, buffer |-> Put(buf, off, r.out),
        range |-> <<start, off + DEFAULT_HASH_SIZE>>,
        fed |-> Slice(buf, start, off + DEFAULT_HASH_SIZE)]

\* lines 88-91: one iteration of the loop, at offset off
FillSlot(t, buf, off) ==
    LET start == WindowStart(off)
        r == Blake2s(t, Slice(buf, start, off))
    IN [table |-> r.table, buffer |-> Put(buf, off, r.out),
        range |-> <<start, off>>, fed |-> Slice(buf, start, off)]

\* lines 94-100: hashing the whole buffer one way and another
Fold(t, buf, res) ==
    LET rev == reverse(buf)
        r == Blake2s(t, buf \o rev)
    IN [table |-> r.table, buffer |-> rev,
        result |-> Put(Resize(res, DEFAULT_HASH_SIZE), 0, r.out)]

RECURSIVE FillLoop(_, _, _)
FillLoop(t, buf, off) ==
    IF off < LoopEnd(buf)
    THEN LET s == FillSlot(t, buf, off) IN FillLoop(s.table, s.buffer, off + DEFAULT_HASH_SIZE)
    ELSE [table |-> t, buffer |-> buf]

\* process_input run from start to end on hasher h with the table t
process_input(t, h, d) ==
    LET s == Seed(t, h, d)
        l == FillLoop(s.table, s.buffer, DEFAULT_HASH_SIZE)
        f == Fold(l.table, l.buffer, h.result)
    IN [table |-> f.table, buffer |-> f.buffer, result |-> f.result, dirty |-> TRUE]

\* to_hex: two lowercase hex digits per byte, as digit values
RECURSIVE to_hex(_)
to_hex(buf) ==
    IF buf = <<>> THEN <<>>
    ELSE <<Head(buf) \div 16, Head(buf) % 16>> \o to_hex(Tail(buf))

----------------------------------------------------------------------------
\* The library: a hasher and its caller

self == [buffer |-> buffer, result |-> result, dirty |-> dirty]

InitHasher ==
    /\ buffer = new.buffer
    /\ result = new.result
    /\ dirty = new.dirty
    /\ oracle = <<>>
    /\ pc = "idle"
    /\ x = 0
    /\ data = <<>>
    /\ chain = <<>>
    /\ done = 0
    /\ lastOp = "new"
    /\ written = <<>>
    /\ win = <<0, 0>>
    /\ msg = <<>>
    /\ filled = new.buffer
    /\ pre = new

Init ==
    /\ InitHasher
    /\ file = <<>>
    /\ pos = 0
    /\ rbuf = Zeros(BUFFER_SIZE)
    /\ n = 0
    /\ cli = "off"
    /\ printed = <<>>

\* process_input, lines 76-86: entry up to the first iteration of the loop
Enter(d) ==
    /\ pc = "idle"
    /\ LET s == Seed(oracle, self, d)
       IN /\ oracle' = s.table
          /\ buffer' = s.buffer
    /\ pc' = "fill"
    /\ x' = DEFAULT_HASH_SIZE
    /\ data' = d
    /\ pre' = self
    /\ written' = <<0>>
    /\ win' = <<0, 0>>
    /\ msg' = SeedMessage(self, d)
    /\ UNCHANGED <<result, dirty, chain, done, lastOp, filled>>

\* pub fn update
Update(d) ==
    /\ cli = "off"
    /\ done < MaxUpdates
    /\ Enter(d)
    /\ UNCHANGED tool

\* process_input, lines 87-92: one iteration of the loop
FillStep ==
    /\ pc = "fill"
    /\ x < LoopEnd(buffer)
    /\ LET s == FillSlot(oracle, buffer, x)
       IN /\ oracle' = s.table
          /\ buffer' = s.buffer
    /\ win' = FillSlot(oracle, buffer, x).range
    /\ msg' = FillSlot(oracle, buffer, x).fed
    /\ written' = Append(written, x \div DEFAULT_HASH_SIZE)
    /\ x' = x + DEFAULT_HASH_SIZE
    /\ UNCHANGED <<result, dirty, pc, data, chain, done, lastOp, filled, pre, tool>>

\* process_input, lines 93-100: the loop is over
FoldStep ==
    /\ pc = "fill"
    /\ ~(x < LoopEnd(buffer))
    /\ LET f == Fold(oracle, buffer, result)
       IN /\ oracle' = f.table
          /\ buffer' = f.buffer
          /\ result' = f.result
    /\ dirty' = TRUE
    /\ pc' = "idle"
    /\ filled' = buffer
    /\ chain' = Append(chain, data)
    /\ done' = done + 1
    /\ lastOp' = "update"
    /\ UNCHANGED <<x, data, written, win, msg, pre, tool>>

\* a reset that leaves the flag as it is
Reset_keepsDirty ==
    /\ cli = "off"
    /\ pc = "idle"
    /\ dirty' = dirty
    /\ chain' = <<>>
    /\ lastOp' = "reset"
    /\ pre' = self
    /\ UNCHANGED <<buffer, result, oracle, control, done, written, win, msg, filled, tool>>

\* a reset that also zero-fills the buffer
Reset_zeroesBuffer ==
    /\ cli = "off"
    /\ pc = "idle"
    /\ dirty' = FALSE
    /\ buffer' = Zeros(Len(buffer))
    /\ chain' = <<>>
    /\ lastOp' = "reset"
    /\ pre' = self
    /\ UNCHANGED <<result, oracle, control, done, written, win, msg, filled, tool>>

\* a reset that also clears the result
Reset_clearsResult ==
    /\ cli = "off"
    /\ pc = "idle"
    /\ dirty' = FALSE
    /\ result' = <<>>
    /\ chain' = <<>>
    /\ lastOp' = "reset"
    /\ pre' = self
    /\ UNCHANGED <<buffer, oracle, control, done, written, win, msg, filled, tool>>

\* pub fn reset
Reset ==
    /\ cli = "off"
    /\ pc = "idle"
    /\ dirty' = FALSE
    /\ chain' = <<>>
    /\ lastOp' = "reset"
    /\ pre' = self
    /\ UNCHANGED <<buffer, result, oracle, control, done, written, win, msg, filled, tool>>

Next ==
    \/ \E d \in Data : Update(d)
    \/ FillStep
    \/ FoldStep
    \/ Reset

Spec == Init /\ [][Next]_vars

----------------------------------------------------------------------------
\* The file tool: fn process on a reader that holds the bytes of file

InitFile ==
    /\ InitHasher
    /\ file \in Files
    /\ pos = 0
    /\ rbuf = Zeros(BUFFER_SIZE)
    /\ n = 0
    /\ cli = "read"
    /\ printed = <<>>

\* the byte counts reader.read(&mut buffer) may return: 0 at the end of the input only,
\* otherwise any count up to the buffer's size and the bytes left (Read allows short reads)
ReadCounts ==
    IF pos = Len(file) THEN {0}
    ELSE {k \in 1..BUFFER_SIZE : pos + k <= Len(file)}

\* lines 20-24: Ok(n) => n, then sh.input(&buffer[..n]) enters the hasher
CliRead(k) ==
    /\ cli = "read"
    /\ k \in ReadCounts
    /\ rbuf' = Put(rbuf, 0, Slice(file, pos, pos + k))
    /\ pos' = pos + k
    /\ n' = k
    /\ Enter(Slice(Put(rbuf, 0, Slice(file, pos, pos + k)), 0, k))
    /\ cli' = "input"
    /\ UNCHANGED <<file, printed>>

\* line 22: Err(_) => return
CliReadErr ==
    /\ cli = "read"
    /\ cli' = "failed"
    /\ UNCHANGED <<hasher, oracle, control, history, file, pos, rbuf, n, printed>>

\* lines 25-30: sh.input returned; leave the loop and print, or read again
CliLoop ==
    /\ cli = "input"
    /\ pc = "idle"
    /\ IF n = 0 \/ n < BUFFER_SIZE
       THEN /\ cli' = "done"
            /\ printed' = to_hex(result)
       ELSE /\ cli' = "read"
            /\ printed' = printed
    /\ UNCHANGED <<hasher, oracle, control, history, file, pos, rbuf, n>>

NextFile ==
    \/ \E k \in 0..BUFFER_SIZE : CliRead(k)
    \/ CliReadErr
    \/ FillStep
    \/ FoldStep
    \/ CliLoop

SpecFile == InitFile /\ [][NextFile]_vars

----------------------------------------------------------------------------
\* Vocabulary of the properties

SlotBytes(buf, i) == Slice(buf, i * DEFAULT_HASH_SIZE, (i + 1) * DEFAULT_HASH_SIZE)
Fresh(d) == process_input(oracle, new, d)
UpdateReturned == pc = "idle" /\ lastOp = "update"
AfterReset == pc = "idle" /\ lastOp = "reset"

\* the hasher after the updates of c, in order, on a new hasher
RECURSIVE AfterChain(_, _)
AfterChain(t, c) ==
    IF c = <<>> THEN [table |-> t, buffer |-> new.buffer, result |-> new.result, dirty |-> new.dirty]
    ELSE LET h == AfterChain(t, SubSeq(c, 1, Len(c) - 1))
         IN process_input(h.table, h, c[Len(c)])

\* C1: whatever updates and resets came before, after reset() and then update(d) the
\* result is the result of a freshly constructed hasher after a single update(d).
C1_ResetThenUpdateIsFresh ==
    (UpdateReturned /\ Len(chain) = 1) => result = Fresh(chain[1]).result

C1_Witness ==
    /\ UpdateReturned
    /\ Len(chain) = 1
    /\ done >= 2
    /\ pre.buffer # new.buffer
    /\ pre.result # <<>>

\* C2: the digest after update(a); update(b) differs from the digest of a fresh hasher
\* after update(b) alone; in particular update(a); update(a) does not reproduce the
\* digest of the first call.
C2_ChainedDigestDiffers ==
    (UpdateReturned /\ Len(chain) >= 2) =>
        /\ result # Fresh(chain[Len(chain)]).result
        /\ chain[Len(chain) - 1] = chain[Len(chain)] => result # pre.result

C2_Witness ==
    /\ UpdateReturned
    /\ Len(chain) = 2
    /\ chain[1] = chain[2]
    /\ chain[1] # <<>>

\* C3 (as claimed): the digest the file tool prints is the digest of a fresh hasher after
\* one update with the complete contents of the file.
C3_PrintsDigestOfWholeFile ==
    cli = "done" => printed = to_hex(Fresh(file).result)

\* C4 (as claimed): after reset() every byte of buffer is zero and the flag is false.
C4_ResetZeroesBuffer ==
    AfterReset => (~dirty /\ \A i \in 1..Len(buffer) : buffer[i] = 0)

\* C4 (amended): after reset() the flag is false and buffer is exactly as it was before
\* the call, at its full length: after an update it still holds the reversed scratchpad.
C4_ResetKeepsBuffer ==
    AfterReset =>
        /\ ~dirty
        /\ buffer = pre.buffer
        /\ Len(buffer) = DEFAULT_HASH_SIZE * DEFAULT_HASH_COUNT
        /\ done > 0 => buffer = reverse(filled)

C4_Witness ==
    /\ AfterReset
    /\ done > 0
    /\ \E i \in 1..Len(buffer) : buffer[i] # 0

\* C5: reset() leaves result unchanged, and the value stays in place until the next
\* update overwrites it at its end.
C5_ResetKeepsResult ==
    lastOp = "reset" => (result = pre.result /\ (done > 0 => Len(result) = DEFAULT_HASH_SIZE))

C5_Witness ==
    /\ lastOp = "reset"
    /\ pc = "fill"
    /\ Len(result) = DEFAULT_HASH_SIZE
    /\ ~dirty

\* C6: result is empty while no update has completed and DEFAULT_HASH_SIZE bytes long
\* afterwards; while the flag is true it is the digest of the latest completed update.
C6_ResultShape ==
    /\ done = 0 => result = <<>>
    /\ done > 0 => Len(result) = DEFAULT_HASH_SIZE
    /\ dirty => (chain # <<>> /\ result = AfterChain(oracle, chain).result)

C6_Witness ==
    /\ dirty
    /\ pc = "idle"
    /\ Len(chain) = 2
    /\ chain[2] = <<>>

\* C7: the bytes hashed for slot i >= 1 are buffer[max(0, off - 2 * size) .. off] with
\* off = i * size: slot 0 for i = 1, slots 0 and 1 for i = 2, slots i-2 and i-1 from
\* i = 3 on, and no byte at or after off.
C7_Window ==
    (pc = "fill" /\ Len(written) > 1) =>
        LET i == written[Len(written)]
            off == i * DEFAULT_HASH_SIZE
            low == IF off - 2 * DEFAULT_HASH_SIZE > 0 THEN off - 2 * DEFAULT_HASH_SIZE ELSE 0
        IN /\ win = <<low, off>>
           /\ msg = Slice(buffer, low, off)
           /\ i = 1 => msg = SlotBytes(buffer, 0)
           /\ i = 2 => msg = SlotBytes(buffer, 0) \o SlotBytes(buffer, 1)
           /\ i >= 3 => msg = SlotBytes(buffer, i - 2) \o SlotBytes(buffer, i - 1)

C7_Witness ==
    /\ pc = "fill"
    /\ Len(written) > 1
    /\ written[Len(written)] = 3
    /\ done > 0

\* C8: an update writes the slots 0 .. DEFAULT_HASH_COUNT - 1 once each, in increasing
\* order, all of them before the fold; every slot in the window of slot i was written
\* earlier in the same call.
C8_SlotsInOrder ==
    /\ pc = "fill" =>
        /\ written = [k \in 1..(x \div DEFAULT_HASH_SIZE) |-> k - 1]
        /\ \A s \in 0..(DEFAULT_HASH_COUNT - 1) :
              (Len(written) > 1 /\ win[1] < (s + 1) * DEFAULT_HASH_SIZE /\ s * DEFAULT_HASH_SIZE < win[2])
                  => \E k \in 1..(Len(written) - 1) : written[k] = s
    /\ UpdateReturned => written = [k \in 1..DEFAULT_HASH_COUNT |-> k - 1]

C8_Witness ==
    /\ UpdateReturned
    /\ done = 2
    /\ Len(written) = DEFAULT_HASH_COUNT

\* C9: the digest is the hash of the filled scratchpad followed by its byte-by-byte
\* reversal, and the buffer is left reversed, at its length.
C9_FoldDigest ==
    UpdateReturned =>
        /\ Len(buffer) = DEFAULT_HASH_SIZE * DEFAULT_HASH_COUNT
        /\ Len(filled) = Len(buffer)
        /\ \A i \in 1..Len(buffer) : buffer[i] = filled[Len(filled) + 1 - i]
        /\ \E k \in 1..Len(oracle) : oracle[k] = filled \o buffer /\ result = Output(k)

C9_Witness ==
    /\ UpdateReturned
    /\ buffer # filled
    /\ Len(result) = DEFAULT_HASH_SIZE

\* C10: the result and the buffer an update leaves depend on the flag, the previous
\* result and the data only, not on what the buffer held when the call started.
C10_BufferIrrelevant ==
    UpdateReturned =>
        \A b \in {new.buffer, reverse(pre.buffer), [i \in 1..Len(pre.buffer) |-> 1]} :
            LET other == process_input(oracle, [pre EXCEPT !.buffer = b], data)
            IN result = other.result /\ buffer = other.buffer

C10_Witness ==
    /\ UpdateReturned
    /\ pre.buffer # new.buffer
    /\ pre.buffer # reverse(pre.buffer)
    /\ pre.dirty

====
